---- MODULE Spec2Model ----
(***************************************************************************)
(* The trading loop of bot.py as a state machine.  One action per step of *)
(* the loop body of main(); every brokerage call is a step of its own,    *)
(* because each may raise and because the account, the clock and the      *)
(* calendar date may change between two calls.                            *)
(*                                                                         *)
(* Units: money in cents, percentages of positions in tenths of a percent,*)
(* time in seconds.                                                        *)
(***************************************************************************)
EXTENDS Integers, Sequences, FiniteSets, TLC

(* ------------------------------ CONFIG ------------------------------- *)
SYMBOLS == <<"SPY", "QQQ", "XLE">>
MAX_TRADES_PER_SYMBOL == 2
\* 0.80, in hundredths
USE_EQUITY_PCT == 80
\* +1.5 % and -1.0 %, in tenths of a percent
TAKE_PROFIT_PCT == 15
STOP_LOSS_PCT == -10
\* dollars, in cents
DAILY_PROFIT_GOAL == 400
DAILY_MAX_LOSS == 600
MAX_DAILY_SPEND == 9000
\* percent
DAILY_LOSS_STOP_PCT == 4
MAX_OPEN_POSITIONS == 3
ORDER_NOTIONAL == 3250
COOLDOWN_MINUTES == 15
RUN_EVERY_SECONDS == 120
CASH_BUFFER == 200
\* the default: extended hours are off
ALLOW_EXTENDED_HOURS == FALSE
\* time.sleep(600) after a daily stop, time.sleep(60) after the heartbeat
STOP_SLEEP == 600
HEARTBEAT_SLEEP == 60
\* len(df) < 50
MIN_BARS == 50

(* ------------------------------ bounds ------------------------------- *)
\* calendar dates are 1..MaxDay
MaxDay == 2
\* seconds the model lets pass after the start
MaxElapsed == 600
\* buy orders the brokerage accepts in one run of the model
MaxOrders == 3
\* restarts of the process in one run of the model
MaxRestarts == 1

Sym == {SYMBOLS[i] : i \in 1..Len(SYMBOLS)}
Days == 1..MaxDay
\* time.time() at the start: far enough from last_trade_ts = 0 that the
\* cooldown of a fresh entry is over, as it is for any real clock
StartTime == COOLDOWN_MINUTES * 60
MaxTime == StartTime + MaxElapsed

VARIABLES
    pc,             \* position in the loop body of main()
    date,           \* today_key()
    now,            \* time.time()
    state,          \* the dict state of main(): date key -> entry
    disk,           \* the file STATE_PATH
    held,           \* the account's positions during this cycle
    positions,      \* manage_positions: positions, the list api.list_positions() returned
    plist,          \* manage_positions: the part of positions the for loop has not visited
    sellsSubmitted, \* the orders manage_positions called api.submit_order with, this cycle
    exitsRan,       \* manage_positions was called this cycle
    equity,         \* main: equity
    buying_power,   \* main: buying_power
    spent,          \* main: spent
    pnl_today,      \* main: pnl_today
    open_syms,      \* main: open_syms
    notional,       \* main: notional
    idx,            \* main: index of sym in SYMBOLS (0 outside the scan)
    cycBuys,        \* buy orders the brokerage accepted this cycle
    cycSpend,       \* amount register_spend recorded this cycle
    bought_any,     \* main: bought_any
    signals,        \* the symbols whose bars give strong_buy_signal(df) = True this cycle
    lastCtlDate,    \* date key of the latest compute_daily_controls (0: none yet)
    ordersAtBroker, \* per symbol, the buy orders the brokerage accepted from the bot
    restarts        \* times the process was started again

cycleVars == <<held, positions, plist, sellsSubmitted, exitsRan, equity, buying_power,
               spent, pnl_today, open_syms, notional, idx, cycBuys, cycSpend,
               bought_any, signals>>
vars == <<pc, date, now, state, disk, held, positions, plist, sellsSubmitted,
          exitsRan, equity, buying_power, spent, pnl_today, open_syms, notional,
          idx, cycBuys, cycSpend, bought_any, signals, lastCtlDate,
          ordersAtBroker, restarts>>

(* ------------------------- the brokerage's data ----------------------- *)
NoPos == [qty |-> 0, avg_entry_price |-> 0, current_price |-> 0]
\* positions: at the stop loss (-1.0 %), inside the band (-0.5 %), at the
\* take profit (+1.5 %)
AtStop == [qty |-> 2, avg_entry_price |-> 200, current_price |-> 198]
Inside == [qty |-> 1, avg_entry_price |-> 200, current_price |-> 199]
AtTake == [qty |-> 3, avg_entry_price |-> 200, current_price |-> 203]
Holding(a, b, c) == [s \in Sym |-> IF s = SYMBOLS[1] THEN a ELSE IF s = SYMBOLS[2] THEN b ELSE c]
NoneHeld == Holding(NoPos, NoPos, NoPos)
\* what the account may hold when a cycle starts
HeldOptions ==
    { NoneHeld,
      Holding(AtStop, NoPos, NoPos),
      Holding(AtTake, NoPos, AtStop),
      Holding(Inside, AtStop, AtTake) }

\* account snapshots get_account may return
AcctOptions ==
    { [equity |-> 10000, last_equity |-> 10000, buying_power |-> 20000],
      [equity |-> 10000, last_equity |->  9600, buying_power |-> 20000],
      [equity |-> 10000, last_equity |-> 10600, buying_power |-> 20000],
      [equity |-> 10000, last_equity |-> 10400, buying_power |-> 20000],
      [equity |-> 10500, last_equity |-> 10500, buying_power |->  3300] }

(* ------------------------------ HELPERS ------------------------------- *)
EmptyState == [d \in {} |-> 0]
NoTrades == [s \in Sym |-> 0]
\* the entry compute_daily_controls creates
FreshEntry == [spent |-> 0, last_trade_ts |-> 0, symbol_trades |-> NoTrades]

Min(a, b) == IF a <= b THEN a ELSE b
Max(a, b) == IF a >= b THEN a ELSE b

\* load_state: the file's content, {} when it is missing or unreadable
load_state(file) == IF file.ok THEN file.data ELSE EmptyState

\* state.get(tk, {}) with the defaults the callers pass to .get
Entry(st, tk) == IF tk \in DOMAIN st THEN st[tk] ELSE FreshEntry

\* state with st[tk] = e
Put(st, tk, e) == [d \in (DOMAIN st) \cup {tk} |-> IF d = tk THEN e ELSE st[d]]

\* mutant of Written: the dump leaves a file json.load cannot read
WrittenTruncated(st) == [ok |-> FALSE, data |-> st]

\* save_state: json.dump(state) to the file (a write that fails, which
\* save_state swallows, is left out: a run starts from an unreadable file at most)
Written(st) == [ok |-> TRUE, data |-> st]
\* a file that load_state cannot read: missing, or left truncated by a dump
\* that raised (save_state swallows the exception)
Unreadable == [ok |-> FALSE, data |-> EmptyState]

\* pnl_pct of manage_positions, in tenths of a percent, compared without
\* dividing: pnl_pct <= x  <=>  (last - entry) * 1000 <= x * entry
PnlAtMost(p, x) == (p.current_price - p.avg_entry_price) * 1000 <= x * p.avg_entry_price
PnlAtLeast(p, x) == (p.current_price - p.avg_entry_price) * 1000 >= x * p.avg_entry_price
StopLossHit(p) == PnlAtMost(p, STOP_LOSS_PCT)
TakeProfitHit(p) == PnlAtLeast(p, TAKE_PROFIT_PCT)
Breach(p) == StopLossHit(p) \/ TakeProfitHit(p)

\* the order both branches of manage_positions submit
SellOrder(s, p) == [symbol |-> s, qty |-> p.qty, side |-> "sell",
                    type |-> "market", time_in_force |-> "day"]

\* api.list_positions(): the held symbols
RECURSIVE ListFrom(_, _)
ListFrom(h, i) ==
    IF i > Len(SYMBOLS) THEN <<>>
    ELSE IF h[SYMBOLS[i]] # NoPos THEN <<SYMBOLS[i]>> \o ListFrom(h, i + 1)
    ELSE ListFrom(h, i + 1)
list_positions(h) == ListFrom(h, 1)
HeldSyms(h) == {s \in Sym : h[s] # NoPos}

\* mutant of TrippedGate: the profit goal compared with > instead of >=
TrippedGateStrictGoal(pnl, eq, sp) ==
    IF pnl > DAILY_PROFIT_GOAL THEN "profit_goal"
    ELSE IF pnl <= -DAILY_MAX_LOSS THEN "max_loss"
    ELSE IF pnl * 100 <= -(eq * DAILY_LOSS_STOP_PCT) THEN "loss_pct"
    ELSE IF sp >= MAX_DAILY_SPEND THEN "max_spend"
    ELSE "none"

\* the daily stop checks of main, in the order of the code
TrippedGate(pnl, eq, sp) ==
    IF pnl >= DAILY_PROFIT_GOAL THEN "profit_goal"
    ELSE IF pnl <= -DAILY_MAX_LOSS THEN "max_loss"
    ELSE IF pnl * 100 <= -(eq * DAILY_LOSS_STOP_PCT) THEN "loss_pct"
    ELSE IF sp >= MAX_DAILY_SPEND THEN "max_spend"
    ELSE "none"
GateSleep(g) == IF g = "max_spend" THEN RUN_EVERY_SECONDS ELSE STOP_SLEEP

\* should_cooldown
should_cooldown(st, tk, t, cooldown_sec) ==
    (t - Entry(st, tk).last_trade_ts) < cooldown_sec

\* mutant of can_trade_symbol: the count compared with <= instead of <
can_trade_symbolOffByOne(st, tk, s, max_trades) ==
    Entry(st, tk).symbol_trades[s] <= max_trades

\* can_trade_symbol(state, sym, MAX_TRADES_PER_SYMBOL): main calls it and
\* bot.py neither defines nor imports it; here it is the daily per-symbol cap
\* of the specification (today's trade count of the symbol below the cap)
can_trade_symbol(st, tk, s, max_trades) ==
    Entry(st, tk).symbol_trades[s] < max_trades

\* mutant of Registered: the symbol's trade is not counted
RegisteredWithoutSymbol(st, tk, amount, s, t) ==
    LET e == Entry(st, tk) IN
    Put(st, tk, [spent |-> e.spent + amount,
                 last_trade_ts |-> t,
                 symbol_trades |-> e.symbol_trades])

\* register_spend: state after state[tk] is updated with amount, time t and
\* one more trade of symbol s
Registered(st, tk, amount, s, t) ==
    LET e == Entry(st, tk) IN
    Put(st, tk, [spent |-> e.spent + amount,
                 last_trade_ts |-> t,
                 symbol_trades |-> [e.symbol_trades EXCEPT ![s] = @ + 1]])

\* the two orders of submit_buy_notional
MarketBuy(s, n) == [symbol |-> s, notional |-> n, side |-> "buy", type |-> "market",
                    time_in_force |-> "day", extended_hours |-> FALSE]
LimitBuy(s, n) == [symbol |-> s, notional |-> n, side |-> "buy", type |-> "limit",
                   time_in_force |-> "day", extended_hours |-> TRUE]

\* mutant of LoopHead: the iteration starts at the account snapshot
LoopHeadAfterExits == "account"

\* where `continue` and the end of the loop body lead: the top of while True,
\* whose first statement is manage_positions(api)
LoopHead == "manage"

\* the trades of symbol s recorded in st, over all its dates
RECURSIVE SumOver(_, _)
SumOver(f, S) ==
    IF S = {} THEN 0
    ELSE LET x == CHOOSE y \in S : TRUE IN f[x] + SumOver(f, S \ {x})
TradesFor(st, s) == SumOver([d \in DOMAIN st |-> st[d].symbol_trades[s]], DOMAIN st)

(* ------------------------------- Init --------------------------------- *)
\* entries an earlier run left in the file today; the cooldown of its last
\* buy has RUN_EVERY_SECONDS to go.
\* EarlierEntry: two buys of SPY that took ORDER_NOTIONAL together (a run
\* started with ORDER_NOTIONAL=16.25 in its environment): SPY is at its cap
\* and the budget still allows an order.
\* SpentEntry: one buy of SPY and one of QQQ at ORDER_NOTIONAL each: the
\* budget left is below ORDER_NOTIONAL
EarlierTs == StartTime - COOLDOWN_MINUTES * 60 + RUN_EVERY_SECONDS
EarlierEntry ==
    [spent |-> ORDER_NOTIONAL,
     last_trade_ts |-> EarlierTs,
     symbol_trades |-> [NoTrades EXCEPT ![SYMBOLS[1]] = MAX_TRADES_PER_SYMBOL]]
SpentEntry ==
    [spent |-> 2 * ORDER_NOTIONAL,
     last_trade_ts |-> EarlierTs,
     symbol_trades |-> [NoTrades EXCEPT ![SYMBOLS[1]] = 1, ![SYMBOLS[2]] = 1]]
\* the file at the start: none or unreadable, one without entries, or one
\* with an entry of today
InitFiles ==
    { Unreadable, Written(EmptyState), Written(Put(EmptyState, 1, EarlierEntry)),
      Written(Put(EmptyState, 1, SpentEntry)) }

ResetCycle ==
    /\ held' = NoneHeld
    /\ positions' = <<>>
    /\ plist' = <<>>
    /\ sellsSubmitted' = {}
    /\ exitsRan' = FALSE
    /\ equity' = 0
    /\ buying_power' = 0
    /\ spent' = 0
    /\ pnl_today' = 0
    /\ open_syms' = {}
    /\ notional' = 0
    /\ idx' = 0
    /\ cycBuys' = {}
    /\ cycSpend' = 0
    /\ bought_any' = FALSE
    /\ signals' = {}

Init ==
    /\ pc = LoopHead
    /\ date = 1
    /\ now = StartTime
    /\ disk \in InitFiles
    /\ state = load_state(disk)
    /\ held = NoneHeld
    /\ positions = <<>>
    /\ plist = <<>>
    /\ sellsSubmitted = {}
    /\ exitsRan = FALSE
    /\ equity = 0
    /\ buying_power = 0
    /\ spent = 0
    /\ pnl_today = 0
    /\ open_syms = {}
    /\ notional = 0
    /\ idx = 0
    /\ cycBuys = {}
    /\ cycSpend = 0
    /\ bought_any = FALSE
    /\ signals = {}
    /\ lastCtlDate = 0
    /\ ordersAtBroker = [s \in Sym |-> TradesFor(state, s)]
    /\ restarts = 0

\* time.sleep(d), then the next iteration of while True
NextIteration(d) ==
    /\ now + d <= MaxTime
    /\ now' = now + d
    /\ pc' = LoopHead
    /\ ResetCycle

\* an exception raised in the loop body: control goes to except Exception
Raise == pc' = "error"

(* --------------------------- manage_positions -------------------------- *)
\* positions = api.list_positions()
ManageList ==
    /\ pc = "manage"
    /\ exitsRan' = TRUE
    /\ \E h \in HeldOptions :
        /\ held' = h
        /\ \/ /\ positions' = list_positions(h)
              /\ plist' = positions'
              /\ pc' = "exits"
           \/ /\ Raise
              /\ UNCHANGED <<positions, plist>>
    /\ UNCHANGED <<date, now, state, disk, sellsSubmitted, equity,
                   buying_power, spent, pnl_today, open_syms, notional, idx,
                   cycBuys, cycSpend, bought_any, signals, lastCtlDate, ordersAtBroker,
                   restarts>>

\* one iteration of `for p in positions`: the stop loss and the take profit
\* branch submit the same order; a submit_order that raises leaves the loop
ExitStep ==
    /\ pc = "exits"
    /\ plist # <<>>
    /\ LET s == Head(plist)
           p == held[s]
       IN  IF Breach(p)
           THEN /\ sellsSubmitted' = sellsSubmitted \cup {SellOrder(s, p)}
                /\ \/ /\ plist' = Tail(plist)
                      /\ pc' = "exits"
                   \/ /\ Raise
                      /\ UNCHANGED plist
           ELSE /\ plist' = Tail(plist)
                /\ UNCHANGED <<sellsSubmitted, pc>>
    /\ UNCHANGED <<date, now, state, disk, held, positions, exitsRan, equity,
                   buying_power, spent, pnl_today, open_syms, notional, idx,
                   cycBuys, cycSpend, bought_any, signals, lastCtlDate, ordersAtBroker,
                   restarts>>

\* manage_positions returns
ExitDone ==
    /\ pc = "exits"
    /\ plist = <<>>
    /\ pc' = "account"
    /\ UNCHANGED <<date, now, state, disk, cycleVars, lastCtlDate,
                   ordersAtBroker, restarts>>

(* ------------------------ account and daily controls ------------------- *)
\* acct = api.get_account(); equity, usable_equity, buying_power
GetAccount ==
    /\ pc = "account"
    /\ \/ \E a \in AcctOptions :
            /\ equity' = a.equity
            /\ buying_power' = Min(a.buying_power, (a.equity * USE_EQUITY_PCT) \div 100)
            /\ pc' = "controls"
       \/ /\ Raise
          /\ UNCHANGED <<equity, buying_power>>
    /\ UNCHANGED <<date, now, state, disk, held, positions, plist,
                   sellsSubmitted, exitsRan, spent, pnl_today, open_syms, notional, idx,
                   cycBuys, cycSpend, bought_any, signals, lastCtlDate, ordersAtBroker,
                   restarts>>

\* compute_daily_controls: today's entry is created and saved, the account is
\* read three more times (any of the calls may raise), spent is returned
ComputeDailyControls ==
    /\ pc = "controls"
    /\ IF date \in DOMAIN state
       THEN UNCHANGED <<state, disk>>
       ELSE /\ state' = Put(state, date, FreshEntry)
            /\ disk' = Written(state')
    /\ \/ /\ spent' = state'[date].spent
          /\ lastCtlDate' = date
          /\ pc' = "pnl"
       \/ /\ Raise
          /\ UNCHANGED <<spent, lastCtlDate>>
    /\ UNCHANGED <<date, now, held, positions, plist, sellsSubmitted, exitsRan,
                   equity, buying_power, pnl_today, open_syms, notional, idx,
                   cycBuys, cycSpend, bought_any, signals, ordersAtBroker, restarts>>

\* pnl_today = daily_pnl(api): one more get_account
DailyPnl ==
    /\ pc = "pnl"
    /\ \/ \E a \in AcctOptions :
            /\ pnl_today' = a.equity - a.last_equity
            /\ pc' = "gates"
       \/ /\ Raise
          /\ UNCHANGED pnl_today
    /\ UNCHANGED <<date, now, state, disk, held, positions, plist,
                   sellsSubmitted, exitsRan, equity, buying_power, spent, open_syms,
                   notional, idx, cycBuys, cycSpend, bought_any, signals, lastCtlDate,
                   ordersAtBroker, restarts>>

(* ------------------------------ the gates ------------------------------ *)
\* the four daily stop checks: sleep and continue, or go on
DailyStopChecks ==
    /\ pc = "gates"
    /\ LET g == TrippedGate(pnl_today, equity, spent)
       IN  IF g # "none"
           THEN NextIteration(GateSleep(g))
           ELSE /\ pc' = "session"
                /\ UNCHANGED <<now, cycleVars>>
    /\ UNCHANGED <<date, state, disk, lastCtlDate, ordersAtBroker, restarts>>

\* can_trade_now(api): market_is_open reads the clock
can_trade_now(is_open) == IF is_open THEN TRUE ELSE ALLOW_EXTENDED_HOURS

CanTradeNow ==
    /\ pc = "session"
    /\ \/ \E is_open \in BOOLEAN :
            IF can_trade_now(is_open)
            THEN /\ pc' = "cooldown"
                 /\ UNCHANGED <<now, cycleVars>>
            ELSE NextIteration(RUN_EVERY_SECONDS)
       \/ /\ Raise
          /\ UNCHANGED <<now, cycleVars>>
    /\ UNCHANGED <<date, state, disk, lastCtlDate, ordersAtBroker, restarts>>

ShouldCooldown ==
    /\ pc = "cooldown"
    /\ IF should_cooldown(state, date, now, COOLDOWN_MINUTES * 60)
       THEN NextIteration(RUN_EVERY_SECONDS)
       ELSE /\ pc' = "poscount"
            /\ UNCHANGED <<now, cycleVars>>
    /\ UNCHANGED <<date, state, disk, lastCtlDate, ordersAtBroker, restarts>>

\* list_open_positions: [] when the call raises
list_open_positions(ok) == IF ok THEN HeldSyms(held) ELSE {}

ListOpenPositions ==
    /\ pc = "poscount"
    /\ \E ok \in BOOLEAN :
        LET syms == list_open_positions(ok)
        IN  IF Cardinality(syms) >= MAX_OPEN_POSITIONS
            THEN NextIteration(RUN_EVERY_SECONDS)
            ELSE /\ open_syms' = syms
                 /\ pc' = "sizing"
                 /\ UNCHANGED <<now, held, positions, plist, sellsSubmitted, exitsRan,
                                equity, buying_power, spent, pnl_today, notional,
                                idx, cycBuys, cycSpend, bought_any, signals>>
    /\ UNCHANGED <<date, state, disk, lastCtlDate, ordersAtBroker, restarts>>

\* the sets of symbols the market may give a signal for in one cycle
SignalOptions == { {}, {SYMBOLS[1]}, {SYMBOLS[3]}, {SYMBOLS[1], SYMBOLS[2]} }

\* remaining_budget, available, the ORDER_NOTIONAL check and notional
\* mutant of remaining_budget: what was spent is not taken off the budget
remaining_budgetIgnoresSpent == Max(0, MAX_DAILY_SPEND)

remaining_budget == Max(0, MAX_DAILY_SPEND - spent)
\* mutant of available: the cash buffer is not kept back
availableWithoutBuffer == Max(0, buying_power)

available == Max(0, buying_power - CASH_BUFFER)
SizedNotional == Min(ORDER_NOTIONAL, Min(remaining_budget, available))

Sizing ==
    /\ pc = "sizing"
    /\ IF available < ORDER_NOTIONAL \/ remaining_budget < ORDER_NOTIONAL
       THEN NextIteration(RUN_EVERY_SECONDS)
       ELSE /\ notional' = SizedNotional
            /\ idx' = 1
            /\ pc' = "scan"
            /\ \E sg \in SignalOptions : signals' = sg
            /\ UNCHANGED <<now, held, positions, plist, sellsSubmitted, exitsRan, equity,
                           buying_power, spent, pnl_today, open_syms, cycBuys,
                           cycSpend, bought_any>>
    /\ UNCHANGED <<date, state, disk, lastCtlDate, ordersAtBroker, restarts>>

(* ---------------------------- the entry scan --------------------------- *)
\* position_exists: True when get_position returns, False when it raises,
\* which it does for a symbol that is not held and for a failed call
position_exists(s, call_fails) == IF call_fails THEN FALSE ELSE held[s] # NoPos

\* `continue` of the for loop: the next symbol
NextSymbol ==
    /\ idx' = idx + 1
    /\ pc' = "scan"

\* one iteration of `for sym in SYMBOLS` up to the bar fetch, and the end of
\* the loop without a buy
ScanSymbol ==
    /\ pc = "scan"
    /\ IF idx > Len(SYMBOLS)
       THEN /\ pc' = "heartbeat"
            /\ UNCHANGED idx
       ELSE LET sym == SYMBOLS[idx]
            IN  IF sym \in open_syms
                THEN NextSymbol
                ELSE \E call_fails \in BOOLEAN :
                        IF position_exists(sym, call_fails)
                        THEN NextSymbol
                        ELSE IF ~can_trade_symbol(state, date, sym, MAX_TRADES_PER_SYMBOL)
                        THEN NextSymbol
                        ELSE /\ pc' = "bars"
                             /\ UNCHANGED idx
    /\ UNCHANGED <<date, now, state, disk, held, positions, plist,
                   sellsSubmitted, exitsRan, equity, buying_power, spent, pnl_today,
                   open_syms, notional, cycBuys, cycSpend, bought_any, signals, lastCtlDate,
                   ordersAtBroker, restarts>>

\* the numbers of bars get_bars_df may return
BarCounts == {0, MIN_BARS - 1, MIN_BARS}
\* a symbol whose bars give a signal has the bars the indicators need
BarsOf(s) == IF s \in signals THEN {MIN_BARS} ELSE BarCounts

\* strong_buy_signal(df): trend, RSI and volume of the last bar, which the
\* market decides
strong_buy_signal(s) == s \in signals

\* get_bars_df, the length check, the indicators and strong_buy_signal (its
\* result is an input), and the print that reads the clock
FetchBars ==
    /\ pc = "bars"
    /\ \/ \E n \in BarsOf(SYMBOLS[idx]) :
            IF n = 0 \/ n < MIN_BARS
            THEN NextSymbol
            ELSE IF strong_buy_signal(SYMBOLS[idx])
            THEN /\ pc' = "submit"
                 /\ UNCHANGED idx
            ELSE NextSymbol
       \/ /\ Raise
          /\ UNCHANGED idx
    /\ UNCHANGED <<date, now, state, disk, held, positions, plist,
                   sellsSubmitted, exitsRan, equity, buying_power, spent, pnl_today,
                   open_syms, notional, cycBuys, cycSpend, bought_any, signals, lastCtlDate,
                   ordersAtBroker, restarts>>

\* submit_buy_notional: the clock is read again; a market order when the
\* market is open, else a limit order flagged extended_hours
BuyOrder(s, n, is_open) == IF is_open THEN MarketBuy(s, n) ELSE LimitBuy(s, n)

SubmitBuy ==
    /\ pc = "submit"
    /\ \/ /\ SumOver(ordersAtBroker, Sym) < MaxOrders
          /\ \E is_open \in BOOLEAN :
                cycBuys' = cycBuys \cup {BuyOrder(SYMBOLS[idx], notional, is_open)}
          /\ ordersAtBroker' = [ordersAtBroker EXCEPT ![SYMBOLS[idx]] = @ + 1]
          /\ pc' = "register"
       \/ /\ Raise
          /\ UNCHANGED <<cycBuys, ordersAtBroker>>
    /\ UNCHANGED <<date, now, state, disk, held, positions, plist,
                   sellsSubmitted, exitsRan, equity, buying_power, spent, pnl_today,
                   open_syms, notional, idx, cycSpend, bought_any, signals, lastCtlDate,
                   restarts>>

\* mutant of RegisterSpend: no break after the buy, the for loop goes on
RegisterSpendWithoutBreak ==
    /\ pc = "register"
    /\ state' = Registered(state, date, notional, SYMBOLS[idx], now)
    /\ disk' = Written(state')
    /\ cycSpend' = cycSpend + notional
    /\ bought_any' = TRUE
    /\ NextSymbol
    /\ UNCHANGED <<date, now, held, positions, plist, sellsSubmitted, exitsRan,
                   equity, buying_power, spent, pnl_today, open_syms, notional,
                   cycBuys, signals, lastCtlDate, ordersAtBroker, restarts>>

\* register_spend(state, notional, symbol=sym); bought_any = True; break
RegisterSpend ==
    /\ pc = "register"
    /\ state' = Registered(state, date, notional, SYMBOLS[idx], now)
    /\ disk' = Written(state')
    /\ cycSpend' = cycSpend + notional
    /\ bought_any' = TRUE
    /\ pc' = "heartbeat"
    /\ UNCHANGED <<date, now, held, positions, plist, sellsSubmitted, exitsRan,
                   equity, buying_power, spent, pnl_today, open_syms, notional, idx,
                   cycBuys, signals, lastCtlDate, ordersAtBroker, restarts>>

(* -------------------------- the end of the loop ------------------------ *)
\* mutant of LoopError: the handler lets the exception out and main returns
LoopErrorLeavesLoop ==
    /\ pc = "error"
    /\ pc' = "exited"
    /\ UNCHANGED <<date, now, state, disk, cycleVars, lastCtlDate,
                   ordersAtBroker, restarts>>

\* except Exception as e: print; then the heartbeat and time.sleep(60)
LoopError ==
    /\ pc = "error"
    /\ NextIteration(HEARTBEAT_SLEEP)
    /\ UNCHANGED <<date, state, disk, lastCtlDate, ordersAtBroker, restarts>>

\* the loop body ended without an exception: heartbeat, time.sleep(60)
Heartbeat ==
    /\ pc = "heartbeat"
    /\ NextIteration(HEARTBEAT_SLEEP)
    /\ UNCHANGED <<date, state, disk, lastCtlDate, ordersAtBroker, restarts>>

(* ----------------------------- environment ----------------------------- *)
\* midnight: date.today() returns the next date from now on.  The program
\* sees the date only through today_key(), so midnight is a step taken just
\* before a step that calls it
TodayKeyCallers == {"controls", "cooldown", "scan", "register"}
\* the first midnight may fall anywhere in the run, each later one a day after
\* the one before
DAY_SECONDS == 86400

DateChange ==
    /\ date < MaxDay
    /\ now - StartTime >= (date - 1) * DAY_SECONDS
    /\ pc \in TodayKeyCallers
    /\ date' = date + 1
    /\ UNCHANGED <<pc, now, state, disk, cycleVars, lastCtlDate,
                   ordersAtBroker, restarts>>

\* the process dies at any point and is started again: main() loads the file
Restart ==
    /\ restarts < MaxRestarts
    /\ restarts' = restarts + 1
    /\ state' = load_state(disk)
    /\ pc' = LoopHead
    /\ ResetCycle
    /\ lastCtlDate' = 0
    /\ UNCHANGED <<date, now, disk, ordersAtBroker>>

Next ==
    \/ ManageList
    \/ ExitStep
    \/ ExitDone
    \/ GetAccount
    \/ ComputeDailyControls
    \/ DailyPnl
    \/ DailyStopChecks
    \/ CanTradeNow
    \/ ShouldCooldown
    \/ ListOpenPositions
    \/ Sizing
    \/ ScanSymbol
    \/ FetchBars
    \/ SubmitBuy
    \/ RegisterSpend
    \/ LoopError
    \/ Heartbeat
    \/ DateChange

Spec == Init /\ [][Next]_vars

\* the same program with restarts
NextCrash == Next \/ Restart

SpecCrash == Init /\ [][NextCrash]_vars

\* the same program continuing a day an earlier run began (the file holds
\* EarlierEntry), with its scheduling: the process is not suspended for good,
\* so the handler's print returns and its sleep ends
InitLive == Init /\ disk = Written(Put(EmptyState, 1, EarlierEntry))

SpecLive == InitLive /\ [][Next]_vars /\ WF_vars(LoopError)

\* the same program started with no state file, or one json.load cannot read
InitFresh == Init /\ ~disk.ok

SpecFresh == InitFresh /\ [][Next]_vars

(* =============================== claims ================================ *)
COOLDOWN_SEC == COOLDOWN_MINUTES * 60

\* C1: today's spend (state[today].spent) never decreases while the date
\* stays the same, and the spend compute_daily_controls reads for gating in
\* the first cycle after the date changed is 0.
C1_SpendMonotoneResetOnNewDate ==
    [][ /\ (date' = date /\ date \in DOMAIN state)
            => (date \in DOMAIN state' /\ state'[date].spent >= state[date].spent)
        /\ (pc = "controls" /\ pc' = "pnl" /\ lastCtlDate \notin {0, date'})
            => spent' = 0 ]_vars

\* C2: in every cycle manage_positions has been called, and its loop over the
\* positions has ended, before the account is read and before any gate is
\* checked; and whenever a cycle ends, whatever gate ended it, the next one
\* starts at manage_positions.
C2_ExitsFirstInEveryCycle ==
    /\ [](pc # "manage" => exitsRan)
    /\ [](pc \notin {"manage", "exits", "error"} => plist = <<>>)
    /\ [][(exitsRan /\ ~exitsRan') => pc' = "manage"]_vars

\* a daily stop gate tripped (here the profit goal) in a cycle whose
\* manage_positions submitted a sell first
C2_Witness ==
    /\ pc = "gates"
    /\ pnl_today >= DAILY_PROFIT_GOAL
    /\ exitsRan
    /\ sellsSubmitted # {}

\* the four daily stop gates, as the claim states them
StopGateTrue(pnl, eq, sp) ==
    \/ pnl >= DAILY_PROFIT_GOAL
    \/ pnl <= -DAILY_MAX_LOSS
    \/ pnl * 100 <= -(eq * DAILY_LOSS_STOP_PCT)
    \/ sp >= MAX_DAILY_SPEND

\* C3: in a cycle where a daily stop gate is true of the values the cycle
\* read (pnl_today, equity, spent), no buy order is submitted and no spend is
\* recorded: the cycle never gets past the gates.
C3_NoBuyWhenDailyStop ==
    (pc \notin {"manage", "exits", "account", "controls", "pnl", "gates", "error"}
        \/ cycBuys # {} \/ cycSpend # 0 \/ bought_any)
    => ~StopGateTrue(pnl_today, equity, spent)

\* the percentage gate alone is true at the gate check, nothing bought
C3_Witness ==
    /\ pc = "gates"
    /\ pnl_today < DAILY_PROFIT_GOAL
    /\ pnl_today > -DAILY_MAX_LOSS
    /\ pnl_today * 100 <= -(equity * DAILY_LOSS_STOP_PCT)
    /\ cycBuys = {}
    /\ cycSpend = 0

\* C4: for every symbol the recorded trade count equals the number of buy
\* orders the brokerage accepted for it, but for the one order that is
\* between submit_buy_notional and register_spend: one increment per
\* accepted order, none for a skipped symbol, a negative signal or a
\* submission that raised.
C4_TradeCountPerAcceptedBuy ==
    \A s \in Sym :
        TradesFor(state, s)
            + (IF pc = "register" /\ SYMBOLS[idx] = s THEN 1 ELSE 0)
        = ordersAtBroker[s]

\* the second symbol was bought and recorded in a cycle that skipped the first
C4_Witness ==
    /\ pc = "heartbeat"
    /\ bought_any
    /\ idx = 2
    /\ date \in DOMAIN state
    /\ state[date].symbol_trades[SYMBOLS[2]] = 1
    /\ ordersAtBroker[SYMBOLS[2]] = 1
    /\ ordersAtBroker[SYMBOLS[1]] = 0

\* the positions in the sequence ps
Range(ps) == {ps[i] : i \in 1..Len(ps)}

\* C5: once manage_positions is over, a market sell, time in force day, for
\* the full quantity was submitted for every listed position with
\* pnl_pct <= STOP_LOSS_PCT or pnl_pct >= TAKE_PROFIT_PCT, and no sell for a
\* position strictly between the thresholds.
C5_ExitRule ==
    pc \notin {"manage", "exits"} =>
        \A s \in Range(positions) :
            LET p == held[s]
                breach == \/ (p.current_price - p.avg_entry_price) * 1000
                                <= STOP_LOSS_PCT * p.avg_entry_price
                          \/ (p.current_price - p.avg_entry_price) * 1000
                                >= TAKE_PROFIT_PCT * p.avg_entry_price
                sell == [symbol |-> s, qty |-> p.qty, side |-> "sell",
                         type |-> "market", time_in_force |-> "day"]
            IN  /\ breach => sell \in sellsSubmitted
                /\ ~breach => \A o \in sellsSubmitted : o.symbol # s

\* C6: when the brokerage rejects the sell order of one position, the sell
\* orders of the breaching positions after it are still submitted.
C6_RejectedSellDoesNotStopOthers ==
    (pc = "error" /\ plist # <<>>) =>
        \A s \in Range(Tail(plist)) :
            Breach(held[s]) => \E o \in sellsSubmitted : o.symbol = s

\* C7: a brokerage call that fails while a symbol of the scan is evaluated
\* does not end the scan: the loop body never reaches its exception handler
\* from the scan with later symbols of SYMBOLS unevaluated.
C7_FailedSymbolDoesNotStopScan ==
    (pc = "error" /\ idx > 0) => idx = Len(SYMBOLS)

\* the latest entry recorded in st, over all its dates
RECURSIVE MaxTs(_, _)
MaxTs(st, S) ==
    IF S = {} THEN 0
    ELSE LET d == CHOOSE x \in S : TRUE
         IN  Max(st[d].last_trade_ts, MaxTs(st, S \ {d}))
LastEntryTs(st) == MaxTs(st, DOMAIN st)

\* C8: a buy order is submitted only when at least the cooldown period has
\* passed since the most recent recorded entry.
C8_NoBuyInsideCooldown ==
    pc = "register" => now - LastEntryTs(state) >= COOLDOWN_SEC

\* C9: with ALLOW_EXTENDED_HOURS false every buy order submitted is a market
\* order, time in force day, not flagged extended_hours.
C9_OnlyMarketBuysWhenExtendedOff ==
    ~ALLOW_EXTENDED_HOURS =>
        \A o \in cycBuys :
            o.type = "market" /\ o.time_in_force = "day" /\ ~o.extended_hours

\* the spend recorded in st, over all its dates
TotalSpent(st) == SumOver([d \in DOMAIN st |-> st[d].spent], DOMAIN st)

C11_ErrorNeverEndsLoop ==
    (pc = "error" /\ now + HEARTBEAT_SLEEP <= MaxTime)
        ~> (pc = "manage" /\ ~exitsRan)

\* the handler was reached from the scan, at the second symbol
C11_Witness ==
    /\ pc = "error"
    /\ idx = 2
    /\ notional > 0
    /\ now + HEARTBEAT_SLEEP <= MaxTime

\* today's recorded trades of s before this cycle's buy, if it bought s
TradesBeforeCycle(s) ==
    Entry(state, date).symbol_trades[s]
        - (IF bought_any /\ SYMBOLS[idx] = s THEN 1 ELSE 0)
\* s is not held, is under its daily cap and has a positive signal
EligibleWithSignal(s) ==
    /\ held[s] = NoPos
    /\ TradesBeforeCycle(s) < MAX_TRADES_PER_SYMBOL
    /\ s \in signals
\* SYMBOLS[i] is the first such symbol in the order of SYMBOLS
FirstEligible(i) ==
    /\ EligibleWithSignal(SYMBOLS[i])
    /\ \A j \in 1..(i - 1) : ~EligibleWithSignal(SYMBOLS[j])

\* C12: when a cycle that reached the scan ends (no gate tripped, sizing
\* allowed an order) and some symbol is not held, under its cap and has a
\* positive signal, then the first such symbol of SYMBOLS was bought, and
\* nothing else, and its spend and its trade are recorded; the one case left
\* out is a brokerage call for that very symbol that raised.
C12_FirstEligibleIsBought ==
    (pc \in {"heartbeat", "error"} /\ idx > 0) =>
        \A i \in 1..Len(SYMBOLS) :
            FirstEligible(i) =>
                \/ pc = "error" /\ idx = i
                \/ /\ {o.symbol : o \in cycBuys} = {SYMBOLS[i]}
                   /\ bought_any
                   /\ cycSpend = notional
                   /\ TradesFor(state, SYMBOLS[i]) >= 1

\* C13: on every recorded date the trade count of every symbol is between 0
\* and MAX_TRADES_PER_SYMBOL, and a symbol the scan goes on to evaluate and
\* buy is below the cap on today's date: a symbol at its cap is not entered
\* again that day.
C13_TradeCountWithinCap ==
    /\ \A d \in DOMAIN state : \A s \in Sym :
            /\ state[d].symbol_trades[s] >= 0
            /\ state[d].symbol_trades[s] <= MAX_TRADES_PER_SYMBOL
    /\ pc \in {"bars", "submit", "register"} =>
            Entry(state, date).symbol_trades[SYMBOLS[idx]] < MAX_TRADES_PER_SYMBOL

\* the scan passed over the first symbol, which is at its cap and otherwise
\* eligible: not held, with a positive signal
C13_Witness ==
    /\ pc = "scan"
    /\ idx = 2
    /\ Entry(state, date).symbol_trades[SYMBOLS[1]] = MAX_TRADES_PER_SYMBOL
    /\ held[SYMBOLS[1]] = NoPos
    /\ SYMBOLS[1] \in signals

\* C14: no buy order is accepted for a symbol the account holds in that
\* cycle, whatever the position calls returned or raised (a position that
\* manage_positions has just submitted a sell for is left out).
C14_NoBuyOfHeldSymbol ==
    \A o \in cycBuys :
        \/ held[o.symbol] = NoPos
        \/ \E x \in sellsSubmitted : x.symbol = o.symbol

\* C15: in a cycle where the account holds MAX_OPEN_POSITIONS positions or
\* more, no buy order is accepted, whether the listing call of the gate
\* returned or raised.
C15_NoBuyAtMaxOpenPositions ==
    Cardinality(HeldSyms(held)) >= MAX_OPEN_POSITIONS => cycBuys = {}

\* the amount of the claim from the values the cycle read: the least of
\* ORDER_NOTIONAL, the budget left and the usable buying power less the cash
\* buffer, not below zero
ClaimedNotional ==
    LET a == MAX_DAILY_SPEND - spent
        b == buying_power - CASH_BUFFER
        m == IF a <= b THEN a ELSE b
        n == IF ORDER_NOTIONAL <= m THEN ORDER_NOTIONAL ELSE m
    IN  IF n < 0 THEN 0 ELSE n

\* C16: buying_power is the lesser of the account's buying power and
\* USE_EQUITY_PCT of its equity; from the scan on, the notional of the cycle,
\* of its order and of the spend it records is the claimed amount; and while
\* that amount is below ORDER_NOTIONAL, the least order the code places, the
\* cycle does not reach the scan, no order is accepted and no spend recorded.
C16_NotionalAndMinimum ==
    /\ pc \in {"controls", "pnl", "gates", "session", "cooldown", "poscount",
                "sizing", "scan", "bars", "submit", "register", "heartbeat"} =>
            \E a \in AcctOptions :
                /\ equity = a.equity
                /\ buying_power =
                        (IF a.buying_power <= (a.equity * USE_EQUITY_PCT) \div 100
                         THEN a.buying_power
                         ELSE (a.equity * USE_EQUITY_PCT) \div 100)
    /\ (pc \in {"scan", "bars", "submit", "register"} \/ cycBuys # {} \/ cycSpend # 0) =>
            /\ notional = ClaimedNotional
            /\ \A o \in cycBuys : o.notional = ClaimedNotional
            /\ cycSpend \in {0, ClaimedNotional}
    /\ ClaimedNotional < ORDER_NOTIONAL =>
            /\ pc \notin {"scan", "bars", "submit", "register"}
            /\ cycBuys = {}
            /\ cycSpend = 0

\* an order of ORDER_NOTIONAL accepted in a cycle that read a spend of
\* ORDER_NOTIONAL for today
C16_Witness ==
    /\ pc = "register"
    /\ spent = ORDER_NOTIONAL
    /\ \E o \in cycBuys : o.notional = ORDER_NOTIONAL

C18_SpendWithinDailyBudget ==
    /\ \A d \in DOMAIN state : state[d].spent <= MAX_DAILY_SPEND
    /\ pc = "register" => Entry(state, date).spent + notional <= MAX_DAILY_SPEND

\* a buy that passed the gates on one date was recorded under the next
C18_Witness ==
    /\ pc = "heartbeat"
    /\ bought_any
    /\ lastCtlDate < date
    /\ date \in DOMAIN state
    /\ state[date].spent = ORDER_NOTIONAL

\* C19: a cycle has at most one accepted buy order, and once it has one the
\* scan is over: the cycle is at register_spend or past the for loop, never
\* back at a symbol.
C19_AtMostOneBuyPerCycle ==
    /\ Cardinality(cycBuys) <= 1
    /\ cycBuys # {} => pc \in {"register", "heartbeat"}
    /\ cycSpend # 0 => pc = "heartbeat"

\* the first symbol was bought and the cycle ended although the second, not
\* held, had a positive signal too
C19_Witness ==
    /\ pc = "heartbeat"
    /\ bought_any
    /\ idx = 1
    /\ Cardinality(cycBuys) = 1
    /\ SYMBOLS[2] \in signals
    /\ held[SYMBOLS[2]] = NoPos

\* C20: once a cycle has read the account and the daily P&L, its equity, its
\* usable buying power and its pnl_today are those of one account snapshot.
C20_OneAccountSnapshotPerCycle ==
    pc \in {"gates", "session", "cooldown", "poscount", "sizing", "scan", "bars",
            "submit", "register", "heartbeat"} =>
        \E a \in AcctOptions :
            /\ equity = a.equity
            /\ buying_power =
                    (IF a.buying_power <= (a.equity * USE_EQUITY_PCT) \div 100
                     THEN a.buying_power
                     ELSE (a.equity * USE_EQUITY_PCT) \div 100)
            /\ pnl_today = a.equity - a.last_equity

====
